---- MODULE Spec2Model ----
(***************************************************************************)
(* Model of the share codec, the sparse share splitter, the share-count    *)
(* estimator and BlobsToShares of celestia-openrpc (package share, blob).  *)
(*                                                                         *)
(* Bytes are integers 0..255, byte slices are sequences.  A Go []byte that *)
(* may be nil is a record [isNil, bytes]: Write's loop tests rawData       *)
(* against nil, not against the empty slice.                               *)
(***************************************************************************)
EXTENDS Integers, Sequences, FiniteSets

(***************************************************************************)
(* appconsts: the protocol constants of the share format.  The header      *)
(* widths and the share size are the network's.                            *)
(***************************************************************************)
ShareSize == 512
NamespaceVersionSize == 1
NamespaceIDSize == 28
NamespaceSize == NamespaceVersionSize + NamespaceIDSize
ShareInfoBytes == 1
SequenceLenBytes == 4
CompactShareReservedBytes == 4
MaxShareVersion == 127
ShareVersionZero == 0
SupportedShareVersions == {ShareVersionZero}
FirstSparseShareContentSize ==
    ShareSize - NamespaceSize - ShareInfoBytes - SequenceLenBytes
ContinuationSparseShareContentSize ==
    ShareSize - NamespaceSize - ShareInfoBytes
NamespaceVersionZero == 0
NamespaceVersionMax == 255
NamespaceVersionZeroPrefixSize == 18

(***************************************************************************)
(* Byte-slice helpers.                                                     *)
(***************************************************************************)
Zeros(n) == [i \in 1..n |-> 0]

\* uint32(n).  TLC's integers are 32-bit signed, so every length of the model
\* is below 2^31, where the conversion changes nothing.
ToUint32(n) == n

\* binary.BigEndian.PutUint32
PutUint32(v) ==
    << (v \div 16777216) % 256, (v \div 65536) % 256, (v \div 256) % 256, v % 256 >>

\* binary.BigEndian.Uint32
Uint32(b) == b[1] * 16777216 + b[2] * 65536 + b[3] * 256 + b[4]

Slice(b, from, to) == SubSeq(b, from + 1, to)

NilBytes == [isNil |-> TRUE, bytes |-> << >>]
GoBytes(b) == [isNil |-> FALSE, bytes |-> b]

(***************************************************************************)
(* package namespace: a namespace is its version byte and its 28 id bytes. *)
(***************************************************************************)
NamespaceOf(version, id) == [Version |-> version, ID |-> id]

NamespaceBytes(ns) == <<ns.Version>> \o ns.ID

V0ID(last) == Zeros(NamespaceIDSize - 1) \o <<last>>

TxNamespace == NamespaceOf(NamespaceVersionZero, V0ID(1))
PayForBlobNamespace == NamespaceOf(NamespaceVersionZero, V0ID(4))
PrimaryReservedPaddingNamespace == NamespaceOf(NamespaceVersionZero, V0ID(255))
TailPaddingNamespace ==
    NamespaceOf(NamespaceVersionMax,
                [i \in 1..NamespaceIDSize |-> IF i = NamespaceIDSize THEN 254 ELSE 255])

\* namespace.New: the version is supported and the id is well formed
NamespaceValid(version, id) ==
    /\ version \in {NamespaceVersionZero, NamespaceVersionMax}
    /\ Len(id) = NamespaceIDSize
    /\ version = NamespaceVersionZero =>
          \A i \in 1..NamespaceVersionZeroPrefixSize : id[i] = 0

IsTx(ns) == ns = TxNamespace
IsPayForBlob(ns) == ns = PayForBlobNamespace
IsTailPadding(ns) == ns = TailPaddingNamespace
IsReservedPadding(ns) == ns = PrimaryReservedPaddingNamespace

(***************************************************************************)
(* Results of the accessors: a value, an error returned to the caller, or  *)
(* a panic.                                                                *)
(***************************************************************************)
Ok(v) == [st |-> "ok", v |-> v]
Err(kind) == [st |-> "error", v |-> kind]
Panic == [st |-> "panic", v |-> "panic"]

(***************************************************************************)
(* AppShare: a share is its byte buffer; the zero value has no bytes.      *)
(***************************************************************************)
AppShare(data) == [data |-> data]
ZeroAppShare == AppShare(<< >>)

\* (s *AppShare) Namespace
Namespace(s) ==
    IF Len(s.data) < NamespaceSize
    THEN Panic
    ELSE LET version == s.data[1]
             id == Slice(s.data, NamespaceVersionSize, NamespaceSize)
         IN  IF NamespaceValid(version, id)
             THEN Ok(NamespaceOf(version, id))
             ELSE Err("InvalidNamespace")

\* ParseInfoByte / InfoByte.IsSequenceStart: the lowest bit of the info byte
InfoByteIsSequenceStart(b) == b % 2 = 1

\* (s *AppShare) InfoByte
InfoByte(s) ==
    IF Len(s.data) < NamespaceSize + ShareInfoBytes
    THEN Err("MalformedShare")
    ELSE Ok(s.data[NamespaceSize + 1])

\* (s *AppShare) IsSequenceStart
IsSequenceStart(s) ==
    LET infoByte == InfoByte(s)
    IN  IF infoByte.st # "ok" THEN infoByte
        ELSE Ok(InfoByteIsSequenceStart(infoByte.v))

\* (s AppShare) IsCompactShare
IsCompactShare(s) ==
    LET ns == Namespace(s)
    IN  IF ns.st # "ok" THEN ns
        ELSE Ok(IsTx(ns.v) \/ IsPayForBlob(ns.v))

\* (s *AppShare) SequenceLen
SequenceLen(s) ==
    LET isSequenceStart == IsSequenceStart(s)
        start == NamespaceSize + ShareInfoBytes
        end == start + SequenceLenBytes
    IN  IF isSequenceStart.st # "ok" THEN isSequenceStart
        ELSE IF ~isSequenceStart.v THEN Ok(0)
        ELSE IF Len(s.data) < end THEN Err("MalformedShare")
        ELSE Ok(Uint32(Slice(s.data, start, end)))

\* (s *AppShare) isNamespacePadding
isNamespacePadding(s) ==
    LET isSequenceStart == IsSequenceStart(s)
        sequenceLen == SequenceLen(s)
    IN  IF isSequenceStart.st # "ok" THEN isSequenceStart
        ELSE IF sequenceLen.st # "ok" THEN sequenceLen
        ELSE Ok(isSequenceStart.v /\ sequenceLen.v = 0)

\* (s *AppShare) isTailPadding
isTailPadding(s) ==
    LET ns == Namespace(s)
    IN  IF ns.st # "ok" THEN ns ELSE Ok(IsTailPadding(ns.v))

\* (s *AppShare) isReservedPadding
isReservedPadding(s) ==
    LET ns == Namespace(s)
    IN  IF ns.st # "ok" THEN ns ELSE Ok(IsReservedPadding(ns.v))

\* (s *AppShare) IsPadding
IsPadding(s) ==
    LET np == isNamespacePadding(s)
        tp == isTailPadding(s)
        rp == isReservedPadding(s)
    IN  IF np.st # "ok" THEN np
        ELSE IF tp.st # "ok" THEN tp
        ELSE IF rp.st # "ok" THEN rp
        ELSE Ok(np.v \/ tp.v \/ rp.v)

\* rawDataStartIndex that forgets the sequence length of a first share
rawDataStartIndexNoSequenceLen(s) ==
    LET isStart == IsSequenceStart(s)
        isCompact == IsCompactShare(s)
    IN  IF isStart.st # "ok" THEN [st |-> "panic", v |-> "panic"]
        ELSE IF isCompact.st # "ok" THEN [st |-> "panic", v |-> "panic"]
        ELSE [st |-> "ok",
              v |-> NamespaceSize + ShareInfoBytes
                    + (IF isCompact.v THEN CompactShareReservedBytes ELSE 0)]

\* (s *AppShare) rawDataStartIndex: panics on either accessor's error
rawDataStartIndex(s) ==
    LET isStart == IsSequenceStart(s)
        isCompact == IsCompactShare(s)
    IN  IF isStart.st # "ok" THEN Panic
        ELSE IF isCompact.st # "ok" THEN Panic
        ELSE Ok(NamespaceSize + ShareInfoBytes
                + (IF isStart.v THEN SequenceLenBytes ELSE 0)
                + (IF isCompact.v THEN CompactShareReservedBytes ELSE 0))

\* (s *AppShare) RawData
RawData(s) ==
    LET index == rawDataStartIndex(s)
    IN  IF index.st # "ok" THEN index
        ELSE IF Len(s.data) < index.v THEN Err("MalformedShare")
        ELSE Ok(Slice(s.data, index.v, Len(s.data)))

\* ParseReservedBytes
ParseReservedBytes(b) ==
    IF Len(b) # CompactShareReservedBytes THEN Err("InvalidReservedBytes")
    ELSE IF Uint32(b) >= ShareSize THEN Err("InvalidReservedBytes")
    ELSE Ok(Uint32(b))

\* (s *AppShare) rawDataStartIndexUsingReserved; the slice expression panics
\* when the buffer ends before the reserved bytes
rawDataStartIndexUsingReserved(s) ==
    LET isStart == IsSequenceStart(s)
        isCompact == IsCompactShare(s)
        index == NamespaceSize + ShareInfoBytes
                 + (IF isStart.v THEN SequenceLenBytes ELSE 0)
    IN  IF isStart.st # "ok" THEN isStart
        ELSE IF isCompact.st # "ok" THEN isCompact
        ELSE IF ~isCompact.v THEN Ok(index)
        ELSE IF Len(s.data) < index + CompactShareReservedBytes THEN Panic
        ELSE ParseReservedBytes(Slice(s.data, index, index + CompactShareReservedBytes))

\* (s *AppShare) RawDataUsingReserved
RawDataUsingReserved(s) ==
    LET index == rawDataStartIndexUsingReserved(s)
    IN  IF index.st # "ok" THEN index
        ELSE IF index.v = 0 THEN Ok(<< >>)
        ELSE IF Len(s.data) < index.v THEN Err("MalformedShare")
        ELSE Ok(Slice(s.data, index.v, Len(s.data)))

\* ToBytes
ToBytes(shares) == [i \in 1..Len(shares) |-> shares[i].data]

\* SparseSharesNeeded: the loop compares uint32(bytesAvailable) with sequenceLen
RECURSIVE SparseSharesLoop(_, _, _)
SparseSharesLoop(bytesAvailable, sharesNeeded, sequenceLen) ==
    IF ToUint32(bytesAvailable) < sequenceLen
    THEN SparseSharesLoop(bytesAvailable + ContinuationSparseShareContentSize,
                          sharesNeeded + 1, sequenceLen)
    ELSE sharesNeeded

SparseSharesNeeded(sequenceLen) ==
    IF sequenceLen = 0 THEN 0
    ELSE IF sequenceLen < FirstSparseShareContentSize THEN 1
    ELSE SparseSharesLoop(FirstSparseShareContentSize, 1, sequenceLen)

(***************************************************************************)
(* Builder: the share under construction is its bytes so far.              *)
(***************************************************************************)
\* NewInfoByte
NewInfoByte(version, isSequenceStart) ==
    IF version > MaxShareVersion THEN Err("InvalidInfoByte")
    ELSE Ok(version * 2 + (IF isSequenceStart THEN 1 ELSE 0))

\* NewBuilder(ns, shareVersion, isFirstShare).Init()
NewBuilderInit(ns, shareVersion, isFirstShare) ==
    LET infoByte == NewInfoByte(shareVersion, isFirstShare)
        isCompactShare == IsTx(ns) \/ IsPayForBlob(ns)
    IN  IF infoByte.st # "ok" THEN infoByte
        ELSE Ok([isFirstShare |-> isFirstShare,
                 isCompactShare |-> isCompactShare,
                 rawShareData |->
                     NamespaceBytes(ns) \o <<infoByte.v>>
                     \o (IF isFirstShare THEN Zeros(SequenceLenBytes) ELSE << >>)
                     \o (IF isCompactShare THEN Zeros(CompactShareReservedBytes)
                         ELSE << >>)])

\* (b *Builder) WriteSequenceLen
WriteSequenceLen(b, sequenceLen) ==
    IF ~b.isFirstShare THEN Err("NotFirstShare")
    ELSE LET buf == PutUint32(sequenceLen)
             start == NamespaceSize + ShareInfoBytes
         IN  Ok([b EXCEPT !.rawShareData =
                    [i \in 1..Len(b.rawShareData) |->
                        IF i > start /\ i <= start + SequenceLenBytes
                        THEN buf[i - start] ELSE b.rawShareData[i]]])

\* (b *Builder) AddData: the bytes that fit are appended, the rest returned;
\* nil is returned when everything fitted
AddData(b, rawData) ==
    LET pendingLeft == ShareSize - Len(b.rawShareData)
    IN  IF Len(rawData) <= pendingLeft
        THEN [b |-> [b EXCEPT !.rawShareData = b.rawShareData \o rawData],
              rawDataLeftOver |-> NilBytes]
        ELSE [b |-> [b EXCEPT !.rawShareData =
                        b.rawShareData \o SubSeq(rawData, 1, pendingLeft)],
              rawDataLeftOver |->
                  GoBytes(SubSeq(rawData, pendingLeft + 1, Len(rawData)))]

\* (b *Builder) ZeroPadIfNecessary
ZeroPadIfNecessary(b) ==
    IF Len(b.rawShareData) >= ShareSize THEN b
    ELSE [b EXCEPT !.rawShareData =
             b.rawShareData \o Zeros(ShareSize - Len(b.rawShareData))]

\* validateSize / NewShare
NewShare(data) ==
    IF Len(data) # ShareSize THEN Err("InvalidShareSize") ELSE Ok(AppShare(data))

\* (b *Builder) Build
Build(b) == NewShare(b.rawShareData)

\* NamespacePaddingShare: a first share with sequence length 0 and zero data
NamespacePaddingShare(ns) ==
    LET b == NewBuilderInit(ns, ShareVersionZero, TRUE)
        b1 == WriteSequenceLen(b.v, 0)
        b2 == AddData(b1.v, Zeros(FirstSparseShareContentSize)).b
    IN  IF b.st # "ok" THEN b
        ELSE IF b1.st # "ok" THEN b1
        ELSE Build(b2)

\* NamespacePaddingShares
NamespacePaddingShares(ns, n) ==
    IF n < 0 THEN Err("InvalidArgument")
    ELSE LET one == NamespacePaddingShare(ns)
         IN  IF n > 0 /\ one.st # "ok" THEN one
             ELSE Ok([i \in 1..n |-> one.v])

(***************************************************************************)
(* Blobs.                                                                  *)
(***************************************************************************)
CoreBlob(ns, data, shareVersion) ==
    [NamespaceVersion |-> ns.Version, NamespaceID |-> ns.ID,
     Data |-> data, ShareVersion |-> shareVersion]

BlobNamespace(blob) == NamespaceOf(blob.NamespaceVersion, blob.NamespaceID)

(***************************************************************************)
(* SparseShareSplitter.Write, the shares it produces.  The result is the   *)
(* shares appended so far and the error that ended the call ("nil": none). *)
(***************************************************************************)
\* Write's loop with every share built as a first share
RECURSIVE WriteLoopFirstShareAgain(_, _, _, _)
WriteLoopFirstShareAgain(blob, b, rawData, acc) ==
    IF rawData.isNil THEN [err |-> "nil", shares |-> acc]
    ELSE LET added == AddData(b, rawData.bytes)
             padded == IF added.rawDataLeftOver.isNil
                       THEN ZeroPadIfNecessary(added.b) ELSE added.b
             share == Build(padded)
             next == NewBuilderInit(BlobNamespace(blob), blob.ShareVersion, TRUE)
         IN  IF share.st # "ok" THEN [err |-> share.v, shares |-> acc]
             ELSE IF next.st # "ok"
                  THEN [err |-> next.v, shares |-> Append(acc, share.v)]
             ELSE WriteLoopFirstShareAgain(blob, next.v, added.rawDataLeftOver,
                                           Append(acc, share.v))

RECURSIVE WriteLoop(_, _, _, _)
WriteLoop(blob, b, rawData, acc) ==
    IF rawData.isNil THEN [err |-> "nil", shares |-> acc]
    ELSE LET added == AddData(b, rawData.bytes)
             padded == IF added.rawDataLeftOver.isNil
                       THEN ZeroPadIfNecessary(added.b) ELSE added.b
             share == Build(padded)
             next == NewBuilderInit(BlobNamespace(blob), blob.ShareVersion, FALSE)
         IN  IF share.st # "ok" THEN [err |-> share.v, shares |-> acc]
             ELSE IF next.st # "ok"
                  THEN [err |-> next.v, shares |-> Append(acc, share.v)]
             ELSE WriteLoop(blob, next.v, added.rawDataLeftOver, Append(acc, share.v))

WriteShares(blob) ==
    IF blob.ShareVersion \notin SupportedShareVersions
    THEN [err |-> "UnsupportedShareVersion", shares |-> << >>]
    ELSE IF ~NamespaceValid(blob.NamespaceVersion, blob.NamespaceID)
    THEN [err |-> "InvalidNamespace", shares |-> << >>]
    ELSE LET b == NewBuilderInit(BlobNamespace(blob), blob.ShareVersion, TRUE)
             b1 == WriteSequenceLen(b.v, ToUint32(Len(blob.Data.bytes)))
         IN  IF b.st # "ok" THEN [err |-> b.v, shares |-> << >>]
             ELSE IF b1.st # "ok" THEN [err |-> b1.v, shares |-> << >>]
             ELSE WriteLoop(blob, b1.v, blob.Data, << >>)

(***************************************************************************)
(* Bounds of the model and the inputs drawn from them.                     *)
(***************************************************************************)
\* the splitter holds at most this many shares
MaxShares == 4
\* the counts WriteNamespacePaddingShares is called with
PadCounts == {-1, 0, 1, 2}
\* the unused slots a reallocating append may leave behind the new length
SpareCaps == {0, 1}
\* BlobsToShares is called with at most this many blobs
MaxBlobs == 3

BlobNs == NamespaceOf(NamespaceVersionZero, V0ID(7))
OtherBlobNs == NamespaceOf(NamespaceVersionZero, V0ID(9))
UnsupportedVersionNs == NamespaceOf(1, V0ID(7))

\* payloads of n bytes, none of them zero
Payload(n) == [i \in 1..n |-> (i % 255) + 1]

DataLens ==
    {1, FirstSparseShareContentSize, FirstSparseShareContentSize + 1,
     FirstSparseShareContentSize + ContinuationSparseShareContentSize + 1}

BlobData == {NilBytes, GoBytes(<< >>)} \cup {GoBytes(Payload(n)) : n \in DataLens}

Blobs ==
    {CoreBlob(BlobNs, d, ShareVersionZero) : d \in BlobData}
    \cup {CoreBlob(TxNamespace, GoBytes(Payload(n)), ShareVersionZero) :
             n \in {1, FirstSparseShareContentSize + 1}}
    \cup {CoreBlob(BlobNs, GoBytes(Payload(1)), 1),
          CoreBlob(UnsupportedVersionNs, GoBytes(Payload(1)), ShareVersionZero)}

\* the blobs written while a caller holds and changes an exported slice
SplitterBlobs ==
    {CoreBlob(BlobNs, NilBytes, ShareVersionZero),
     CoreBlob(BlobNs, GoBytes(Payload(FirstSparseShareContentSize + 1)), ShareVersionZero),
     CoreBlob(TxNamespace, GoBytes(Payload(1)), ShareVersionZero),
     CoreBlob(BlobNs, GoBytes(Payload(1)), 1)}

NoBlob == CoreBlob(BlobNs, NilBytes, ShareVersionZero)

(***************************************************************************)
(* State.  sss.shares is a Go slice: sharesArr is its backing array (its   *)
(* length is the slice's capacity), sharesLen its length.  exported is the *)
(* slice the last Export returned to the caller: it shares sharesArr until *)
(* an append moves sss.shares to a new array, and then keeps the old one.  *)
(* ret is the last call and what it returned; input is the argument of the *)
(* pure functions.                                                         *)
(***************************************************************************)
VARIABLES sharesArr, sharesLen, exported, ret, input

vars == <<sharesArr, sharesLen, exported, ret, input>>

Shares == SubSeq(sharesArr, 1, sharesLen)

ExportedShares ==
    IF exported.shared THEN SubSeq(sharesArr, 1, exported.len) ELSE exported.arr

NotExported == [held |-> FALSE, shared |-> FALSE, arr |-> << >>, len |-> 0]

Ret(op, err, blob, count, before, out) ==
    [op |-> op, err |-> err, blob |-> blob, count |-> count, before |-> before,
     out |-> out]

NoRet == Ret("none", "nil", NoBlob, 0, 0, << >>)

\* NewSparseShareSplitter
NewSparseShareSplitter ==
    /\ sharesArr = << >>
    /\ sharesLen = 0
    /\ exported = NotExported
    /\ ret = NoRet

\* append that writes in place one slot too early
GoAppendOverLast(arr, len, elems, spare) ==
    IF len + Len(elems) <= Len(arr)
    THEN [arr |-> [i \in 1..Len(arr) |->
                      IF i >= len /\ i < len + Len(elems) THEN elems[i - len + 1]
                      ELSE arr[i]],
          len |-> len + Len(elems), moved |-> FALSE]
    ELSE [arr |-> SubSeq(arr, 1, len) \o elems \o [i \in 1..spare |-> ZeroAppShare],
          len |-> len + Len(elems), moved |-> TRUE]

\* append(s, elems...): in place when the capacity suffices, else into a new
\* array whose capacity is at least the new length
GoAppend(arr, len, elems, spare) ==
    IF len + Len(elems) <= Len(arr)
    THEN [arr |-> [i \in 1..Len(arr) |->
                      IF i > len /\ i <= len + Len(elems) THEN elems[i - len]
                      ELSE arr[i]],
          len |-> len + Len(elems), moved |-> FALSE]
    ELSE [arr |-> SubSeq(arr, 1, len) \o elems \o [i \in 1..spare |-> ZeroAppShare],
          len |-> len + Len(elems), moved |-> TRUE]

\* the exported slice after an append to sss.shares
ExportedAfter(exp, oldArr, moved) ==
    IF exp.held /\ exp.shared /\ moved
    THEN [exp EXCEPT !.shared = FALSE, !.arr = SubSeq(oldArr, 1, exp.len)]
    ELSE exp

\* the appends of Write's loop, one share at a time
RECURSIVE AppendEach(_, _, _, _, _)
AppendEach(arr, len, exp, shares, spare) ==
    IF shares = << >> THEN [arr |-> arr, len |-> len, exp |-> exp]
    ELSE LET a == GoAppend(arr, len, <<Head(shares)>>, spare)
         IN  AppendEach(a.arr, a.len, ExportedAfter(exp, arr, a.moved),
                        Tail(shares), spare)

\* WriteShares of every blob of the model, computed once
WriteSharesOf == [b \in Blobs |-> WriteShares(b)]

\* (sss *SparseShareSplitter) Write
Write(blob) ==
    LET w == WriteSharesOf[blob]
    IN  /\ sharesLen + Len(w.shares) <= MaxShares
        /\ \E spare \in SpareCaps :
              LET a == AppendEach(sharesArr, sharesLen, exported, w.shares, spare)
              IN  /\ sharesArr' = a.arr
                  /\ sharesLen' = a.len
                  /\ exported' = a.exp
        /\ ret' = Ret("Write", w.err, blob, 0, sharesLen, << >>)
        /\ UNCHANGED input

\* WriteNamespacePaddingShares that tests for an empty splitter before it
\* tests for a zero count
PaddingResultEmptyFirst(count) ==
    IF count < 0 THEN [err |-> "InvalidArgument", shares |-> << >>]
    ELSE IF sharesLen = 0 THEN [err |-> "EmptyState", shares |-> << >>]
    ELSE IF count = 0 THEN [err |-> "nil", shares |-> << >>]
    ELSE LET lastBlobNs == Namespace(sharesArr[sharesLen])
             nsPaddingShares == NamespacePaddingShares(lastBlobNs.v, count)
         IN  IF lastBlobNs.st = "panic" THEN [err |-> "panic", shares |-> << >>]
             ELSE IF lastBlobNs.st # "ok" THEN [err |-> lastBlobNs.v, shares |-> << >>]
             ELSE IF nsPaddingShares.st # "ok"
                  THEN [err |-> nsPaddingShares.v, shares |-> << >>]
             ELSE [err |-> "nil", shares |-> nsPaddingShares.v]

\* WriteNamespacePaddingShares that takes the namespace of the first share
PaddingResultFirstNamespace(count) ==
    IF count < 0 THEN [err |-> "InvalidArgument", shares |-> << >>]
    ELSE IF count = 0 THEN [err |-> "nil", shares |-> << >>]
    ELSE IF sharesLen = 0 THEN [err |-> "EmptyState", shares |-> << >>]
    ELSE LET lastBlobNs == Namespace(sharesArr[1])
             nsPaddingShares == NamespacePaddingShares(lastBlobNs.v, count)
         IN  IF lastBlobNs.st = "panic" THEN [err |-> "panic", shares |-> << >>]
             ELSE IF lastBlobNs.st # "ok" THEN [err |-> lastBlobNs.v, shares |-> << >>]
             ELSE IF nsPaddingShares.st # "ok"
                  THEN [err |-> nsPaddingShares.v, shares |-> << >>]
             ELSE [err |-> "nil", shares |-> nsPaddingShares.v]

\* (sss *SparseShareSplitter) WriteNamespacePaddingShares: the result of the
\* call, err and the shares to append
PaddingResult(count) ==
    IF count < 0 THEN [err |-> "InvalidArgument", shares |-> << >>]
    ELSE IF count = 0 THEN [err |-> "nil", shares |-> << >>]
    ELSE IF sharesLen = 0 THEN [err |-> "EmptyState", shares |-> << >>]
    ELSE LET lastBlob == sharesArr[sharesLen]
             lastBlobNs == Namespace(lastBlob)
             nsPaddingShares == NamespacePaddingShares(lastBlobNs.v, count)
         IN  IF lastBlobNs.st = "panic" THEN [err |-> "panic", shares |-> << >>]
             ELSE IF lastBlobNs.st # "ok" THEN [err |-> lastBlobNs.v, shares |-> << >>]
             ELSE IF nsPaddingShares.st # "ok"
                  THEN [err |-> nsPaddingShares.v, shares |-> << >>]
             ELSE [err |-> "nil", shares |-> nsPaddingShares.v]

WriteNamespacePaddingShares(count) ==
    LET p == PaddingResult(count)
    IN  /\ sharesLen + Len(p.shares) <= MaxShares
        /\ \E spare \in SpareCaps :
              LET a == GoAppend(sharesArr, sharesLen, p.shares, spare)
              IN  /\ sharesArr' = a.arr
                  /\ sharesLen' = a.len
                  /\ exported' = ExportedAfter(exported, sharesArr, a.moved)
        /\ ret' = Ret("WriteNamespacePaddingShares", p.err, NoBlob, count,
                      sharesLen, << >>)
        /\ UNCHANGED input

\* Export that hands the shares over and starts the splitter anew
ExportAndReset ==
    /\ exported' = [held |-> TRUE, shared |-> FALSE,
                    arr |-> SubSeq(sharesArr, 1, sharesLen), len |-> sharesLen]
    /\ sharesArr' = << >>
    /\ sharesLen' = 0
    /\ ret' = Ret("Export", "nil", NoBlob, sharesLen, sharesLen, << >>)
    /\ UNCHANGED input

\* (sss *SparseShareSplitter) Export: the slice itself is returned
Export ==
    /\ exported' = [held |-> TRUE, shared |-> TRUE, arr |-> << >>, len |-> sharesLen]
    /\ ret' = Ret("Export", "nil", NoBlob, sharesLen, sharesLen, << >>)
    /\ UNCHANGED <<sharesArr, sharesLen, input>>

\* (sss *SparseShareSplitter) Count
Count ==
    /\ ret' = Ret("Count", "nil", NoBlob, sharesLen, sharesLen, << >>)
    /\ UNCHANGED <<sharesArr, sharesLen, exported, input>>

(***************************************************************************)
(* The caller that holds the slice Export returned: it assigns to one of   *)
(* its elements, or appends to it.                                         *)
(***************************************************************************)
\* exported[i] = AppShare{}
CallerAssign(i) ==
    /\ exported.held
    /\ i \in 1..exported.len
    /\ IF exported.shared
       THEN /\ sharesArr' = [sharesArr EXCEPT ![i] = ZeroAppShare]
            /\ UNCHANGED exported
       ELSE /\ exported' = [exported EXCEPT !.arr[i] = ZeroAppShare]
            /\ UNCHANGED sharesArr
    /\ ret' = Ret("CallerAssign", "nil", NoBlob, i, sharesLen, << >>)
    /\ UNCHANGED <<sharesLen, input>>

\* _ = append(exported, AppShare{}): written into the shared array when the
\* capacity suffices, into a new array otherwise
CallerAppend ==
    /\ exported.held
    /\ sharesArr' =
          IF exported.shared /\ exported.len < Len(sharesArr)
          THEN [sharesArr EXCEPT ![exported.len + 1] = ZeroAppShare]
          ELSE sharesArr
    /\ ret' = Ret("CallerAppend", "nil", NoBlob, exported.len, sharesLen, << >>)
    /\ UNCHANGED <<sharesLen, exported, input>>

Init ==
    /\ NewSparseShareSplitter
    /\ input = << >>

\* the splitter and the caller that holds what Export returned
Next ==
    \/ \E blob \in SplitterBlobs : Write(blob)
    \/ \E count \in PadCounts : WriteNamespacePaddingShares(count)
    \/ Export
    \/ Count
    \/ \E i \in 1..MaxShares : CallerAssign(i)
    \/ CallerAppend

Spec == Init /\ [][Next]_vars

\* the splitter written to with every blob of the model
NextWrite ==
    \/ \E blob \in Blobs : Write(blob)
    \/ \E count \in PadCounts : WriteNamespacePaddingShares(count)

SpecWrite == Init /\ [][NextWrite]_vars

(***************************************************************************)
(* The share accessors called on a buffer: input is the share.             *)
(***************************************************************************)
\* lengths at which a share's buffer is cut: around each header field
ProbeLens ==
    {NamespaceSize - 1, NamespaceSize, NamespaceSize + ShareInfoBytes,
     NamespaceSize + ShareInfoBytes + SequenceLenBytes - 1,
     NamespaceSize + ShareInfoBytes + SequenceLenBytes,
     NamespaceSize + ShareInfoBytes + SequenceLenBytes + CompactShareReservedBytes}

BuiltShares ==
    UNION {{WriteSharesOf[b].shares[i] : i \in 1..Len(WriteSharesOf[b].shares)} :
             b \in Blobs}
    \cup {NamespacePaddingShare(ns).v :
            ns \in {BlobNs, TailPaddingNamespace, PrimaryReservedPaddingNamespace}}

ProbeShares ==
    {ZeroAppShare} \cup BuiltShares
    \cup {AppShare(SubSeq(s.data, 1, n)) : s \in BuiltShares, n \in ProbeLens}

\* the error a call returned: "nil", "panic" or the error's kind
ErrOf(res) == IF res.st = "ok" THEN "nil" ELSE res.v

Called(op, res) ==
    /\ ret' = Ret(op, ErrOf(res), NoBlob, 0, 0, IF res.st = "ok" THEN res.v ELSE << >>)
    /\ UNCHANGED <<sharesArr, sharesLen, exported, input>>

CallNamespace == Called("Namespace", Namespace(input))
CallInfoByte == Called("InfoByte", InfoByte(input))
CallIsSequenceStart == Called("IsSequenceStart", IsSequenceStart(input))
CallIsCompactShare == Called("IsCompactShare", IsCompactShare(input))
CallSequenceLen == Called("SequenceLen", SequenceLen(input))
CallIsPadding == Called("IsPadding", IsPadding(input))
CallRawData == Called("RawData", RawData(input))
CallRawDataUsingReserved == Called("RawDataUsingReserved", RawDataUsingReserved(input))

InitCodec ==
    /\ NewSparseShareSplitter
    /\ input \in ProbeShares

NextCodec ==
    \/ CallNamespace
    \/ CallInfoByte
    \/ CallIsSequenceStart
    \/ CallIsCompactShare
    \/ CallSequenceLen
    \/ CallIsPadding
    \/ CallRawData
    \/ CallRawDataUsingReserved

SpecCodec == InitCodec /\ [][NextCodec]_vars

(***************************************************************************)
(* SplitBlobs and BlobsToShares: input is the list of blobs.               *)
(***************************************************************************)
\* SplitBlobs: a new splitter, Write for each blob, then Export; nil and the
\* error when a Write fails
RECURSIVE SplitBlobsLoop(_, _, _)
SplitBlobsLoop(blobs, i, shares) ==
    IF i > Len(blobs) THEN [err |-> "nil", shares |-> shares]
    ELSE LET w == WriteShares(blobs[i])
         IN  IF w.err # "nil" THEN [err |-> w.err, shares |-> << >>]
             ELSE SplitBlobsLoop(blobs, i + 1, shares \o w.shares)

SplitBlobs(blobs) == SplitBlobsLoop(blobs, 1, << >>)

Min(S) == CHOOSE x \in S : \A y \in S : x <= y

\* bytes.Compare
BytesCompare(a, b) ==
    LET n == IF Len(a) < Len(b) THEN Len(a) ELSE Len(b)
        d == {i \in 1..n : a[i] # b[i]}
    IN  IF d # {} THEN (IF a[Min(d)] < b[Min(d)] THEN -1 ELSE 1)
        ELSE IF Len(a) < Len(b) THEN -1
        ELSE IF Len(a) > Len(b) THEN 1
        ELSE 0

\* the less function BlobsToShares hands to sort.Slice
Less(x, y) == BytesCompare(x.NamespaceID, y.NamespaceID) < 0

Orderings(n) ==
    {p \in [1..n -> 1..n] : \A i, j \in 1..n : p[i] = p[j] => i = j}

\* sort.Slice: the result is sorted by less; the order of elements that less
\* does not order is not specified
SortSlice(b) ==
    {[i \in 1..Len(b) |-> b[p[i]]] :
        p \in {q \in Orderings(Len(b)) :
                 \A i, j \in 1..Len(b) : i < j => ~Less(b[q[j]], b[q[i]])}}

\* the conversion of a blob.Blob to a CoreBlob: the share version is cut to
\* a uint8
ToCoreBlob(blob) == [blob EXCEPT !.ShareVersion = blob.ShareVersion % 256]

\* BlobsToShares, with the blobs as sort.Slice left them
BlobsToSharesOf(sorted) ==
    LET rawShares == SplitBlobs(sorted)
    IN  IF rawShares.err # "nil" THEN [err |-> rawShares.err, out |-> << >>]
        ELSE [err |-> "nil", out |-> ToBytes(rawShares.shares)]

BlobsToShares ==
    /\ \E sorted \in SortSlice([i \in 1..Len(input) |-> ToCoreBlob(input[i])]) :
          LET r == BlobsToSharesOf(sorted)
          IN  ret' = Ret("BlobsToShares", r.err, NoBlob, 0, 0, r.out)
    /\ UNCHANGED <<sharesArr, sharesLen, exported, input>>

\* the blobs handed to BlobsToShares
InputBlobs ==
    {CoreBlob(OtherBlobNs, GoBytes(Payload(1)), ShareVersionZero),
     CoreBlob(BlobNs, GoBytes(Payload(1)), ShareVersionZero),
     CoreBlob(BlobNs, GoBytes(Payload(FirstSparseShareContentSize + 1)), ShareVersionZero),
     CoreBlob(BlobNs, NilBytes, ShareVersionZero),
     CoreBlob(OtherBlobNs, GoBytes(Payload(1)), 1)}

InitBlobs ==
    /\ NewSparseShareSplitter
    /\ input \in UNION {[1..n -> InputBlobs] : n \in 0..MaxBlobs}

NextBlobs == BlobsToShares

SpecBlobs == InitBlobs /\ [][NextBlobs]_vars

(***************************************************************************)
(* Properties.                                                             *)
(***************************************************************************)
WriteOk == ret.op = "Write" /\ ret.err = "nil"

\* the shares the last Write appended, and its payload
Appended == SubSeq(sharesArr, ret.before + 1, sharesLen)
WrittenPayload == ret.blob.Data.bytes

IsPrefix(a, b) == Len(a) <= Len(b) /\ SubSeq(b, 1, Len(a)) = a

RECURSIVE ConcatRawData(_)
ConcatRawData(shares) ==
    IF shares = << >> THEN << >>
    ELSE RawData(Head(shares)).v \o ConcatRawData(Tail(shares))

RECURSIVE ConcatRawDataUsingReserved(_)
ConcatRawDataUsingReserved(shares) ==
    IF shares = << >> THEN << >>
    ELSE RawDataUsingReserved(Head(shares)).v
         \o ConcatRawDataUsingReserved(Tail(shares))

IsCompactNamespace(ns) == IsTx(ns) \/ IsPayForBlob(ns)

\* C1: after a successful Write of a blob, the number of shares it appended
\* equals SparseSharesNeeded of the payload length (nil and empty payloads
\* included).
C1_WriteCountIsSharesNeeded ==
    WriteOk => sharesLen - ret.before = SparseSharesNeeded(Len(WrittenPayload))

\* C2 as stated: the concatenation of RawData() of the shares a Write
\* appended (and of RawDataUsingReserved() for a non-compact namespace) is
\* exactly the blob's payload.
C2_RoundTripExact ==
    WriteOk =>
        /\ \A i \in 1..Len(Appended) : RawData(Appended[i]).st = "ok"
        /\ ConcatRawData(Appended) = WrittenPayload
        /\ ~IsCompactNamespace(BlobNamespace(ret.blob)) =>
              ConcatRawDataUsingReserved(Appended) = WrittenPayload

\* C2 amended: the concatenation of RawData() of the shares a Write appended
\* is the blob's payload followed only by zero bytes (the padding of the last
\* share), and for a non-compact namespace RawDataUsingReserved() gives the
\* same bytes.
C2_RoundTripPadded ==
    WriteOk =>
        /\ \A i \in 1..Len(Appended) : RawData(Appended[i]).st = "ok"
        /\ IsPrefix(WrittenPayload, ConcatRawData(Appended))
        /\ \A i \in 1..Len(ConcatRawData(Appended)) :
              i > Len(WrittenPayload) => ConcatRawData(Appended)[i] = 0
        /\ ~IsCompactNamespace(BlobNamespace(ret.blob)) =>
              /\ \A i \in 1..Len(Appended) :
                    RawDataUsingReserved(Appended[i]).st = "ok"
              /\ ConcatRawDataUsingReserved(Appended) = ConcatRawData(Appended)

\* a Write whose payload spans several shares and does not fill the last one
C2_Witness ==
    /\ WriteOk
    /\ Len(Appended) >= 2
    /\ Len(ConcatRawData(Appended)) > Len(WrittenPayload)
    /\ Len(WrittenPayload) > 0

PaddingCalled == ret.op = "WriteNamespacePaddingShares"

\* C4: WriteNamespacePaddingShares(count) returns InvalidArgument for
\* count < 0, no error for count = 0 and EmptyState for count > 0 on a
\* splitter without shares, and in each case leaves the shares and their
\* count as they were.
C4_PaddingGuards ==
    [][PaddingCalled' =>
          /\ ret'.count < 0 =>
                ret'.err = "InvalidArgument" /\ Shares' = Shares /\ sharesLen' = sharesLen
          /\ ret'.count = 0 =>
                ret'.err = "nil" /\ Shares' = Shares /\ sharesLen' = sharesLen
          /\ (ret'.count > 0 /\ sharesLen = 0) =>
                ret'.err = "EmptyState" /\ Shares' = Shares /\ sharesLen' = sharesLen
      ]_vars

\* padding asked of a splitter without shares
C4_Witness ==
    /\ PaddingCalled
    /\ ret.count > 0
    /\ ret.err = "EmptyState"
    /\ sharesLen = 0

\* C5: a successful WriteNamespacePaddingShares(count), count > 0, appends
\* count shares; each has the namespace of the share that was last before the
\* call, is a sequence start with sequence length 0, and IsPadding() is true.
C5_PaddingShares ==
    [][(PaddingCalled' /\ ret'.err = "nil" /\ ret'.count > 0) =>
          /\ sharesLen > 0
          /\ sharesLen' = sharesLen + ret'.count
          /\ IsPrefix(Shares, Shares')
          /\ \A i \in (sharesLen + 1)..sharesLen' :
                /\ Namespace(sharesArr'[i]).st = "ok"
                /\ Namespace(sharesArr'[i]) = Namespace(sharesArr[sharesLen])
                /\ IsSequenceStart(sharesArr'[i]) = Ok(TRUE)
                /\ SequenceLen(sharesArr'[i]) = Ok(0)
                /\ IsPadding(sharesArr'[i]) = Ok(TRUE)
      ]_vars

\* padding written behind a blob whose namespace differs from the first
\* share's
C5_Witness ==
    /\ PaddingCalled
    /\ ret.err = "nil"
    /\ ret.count > 0
    /\ Namespace(sharesArr[1]).st = "ok"
    /\ Namespace(sharesArr[sharesLen]) # Namespace(sharesArr[1])

CallerOps == {"CallerAssign", "CallerAppend"}
WriteOps == {"Write", "WriteNamespacePaddingShares"}
SplitterOps == WriteOps \cup {"Export", "Count"}

\* C6 as stated: what Export returned is independent of the splitter: the
\* caller's assignment or append to it never changes the splitter's shares,
\* and a later Write or WriteNamespacePaddingShares never changes it.
C6_ExportIsACopy ==
    [][/\ ret'.op \in CallerOps => Shares' = Shares
       /\ (ret'.op \in WriteOps /\ exported.held) => ExportedShares' = ExportedShares
      ]_vars

\* C6 amended: Export returns the splitter's own list (equal to its shares
\* when returned, sharing their storage); the caller's assignment or append to
\* it never changes Count(), and a later Write or
\* WriteNamespacePaddingShares never changes the list Export returned.
C6_ExportSharesStorage ==
    [][/\ ret'.op = "Export" => (ExportedShares' = Shares /\ Shares' = Shares)
       /\ ret'.op \in CallerOps => sharesLen' = sharesLen
       /\ (ret'.op \in WriteOps /\ exported.held) => ExportedShares' = ExportedShares
      ]_vars

\* a Write appended in place behind a list that Export had returned
C6_Witness ==
    /\ WriteOk
    /\ exported.held
    /\ exported.shared
    /\ exported.len > 0
    /\ sharesLen > exported.len

\* C7: over Write, WriteNamespacePaddingShares, Export and Count the shares
\* before a call are a prefix of the shares after it, and are the same after
\* Export, after Count and after a call that returned an error.
C7_AppendOnly ==
    [][ret'.op \in SplitterOps =>
          /\ IsPrefix(Shares, Shares')
          /\ (ret'.op \in {"Export", "Count"} \/ ret'.err # "nil") => Shares' = Shares
      ]_vars

\* a Write refused for its share version on a splitter that holds shares
C7_Witness ==
    /\ ret.op = "Write"
    /\ ret.err = "UnsupportedShareVersion"
    /\ sharesLen > 0

\* C8: on a buffer shorter than NamespaceSize, Namespace(), IsCompactShare(),
\* IsPadding() and RawData() return a MalformedShare error (and do not panic).
C8_ShortBufferIsAnError ==
    (/\ ret.op \in {"Namespace", "IsCompactShare", "IsPadding", "RawData"}
     /\ Len(input.data) < NamespaceSize)
    => ret.err = "MalformedShare"

\* the stable sort: sorted by less, elements that less does not order in the
\* order they came in
SortSliceStable(b) ==
    LET p == CHOOSE q \in Orderings(Len(b)) :
                 \A i, j \in 1..Len(b) :
                     i < j => \/ Less(b[q[i]], b[q[j]])
                              \/ (~Less(b[q[j]], b[q[i]]) /\ q[i] < q[j])
    IN  [i \in 1..Len(b) |-> b[p[i]]]

\* C10: the result of BlobsToShares is the byte form of SplitBlobs of the
\* blobs stably sorted by namespace id (no shares when a Write fails).
C10_BlobsToSharesStable ==
    ret.op = "BlobsToShares" =>
        LET r == BlobsToSharesOf(
                     SortSliceStable([i \in 1..Len(input) |-> ToCoreBlob(input[i])]))
        IN  /\ ret.err = r.err
            /\ ret.out = r.out
            /\ ret.err # "nil" => ret.out = << >>

====
